---- MODULE Spec2Model ----
(***************************************************************************)
(* Best-configuration selectors of pcbench: the nginx, postgresql and     *)
(* redis finders.  Each run is a single pass: locate the input tables,    *)
(* load and filter their rows, select one row, decode its configuration   *)
(* text and write the output files.                                        *)
(***************************************************************************)
EXTENDS Integers, Sequences, FiniteSets, TLC

(***************************************************************************)
(* Bounds of the model.                                                    *)
(***************************************************************************)
\* largest number of input CSV files matched by the glob
MaxFiles == 2
\* largest number of data rows (after the skipped lines) over all the files
MaxRows == 2
\* largest number of items of a configuration text, where the texts vary
MaxItems == 1

(***************************************************************************)
(* Configuration texts.  A text is the content of a Config / CleanConfig   *)
(* cell: a Python dict display whose items are  'key': value , or          *)
(* something that is no dict display at all.  A string literal is kept as  *)
(* its delimiter q and the tokens of its source body; the token "\\'" is   *)
(* a backslash-escaped apostrophe, "'" an apostrophe written as it is.     *)
(* A number literal is n: the value of an int, the tenths of a float       *)
(* (1.5 is 15), 0/1 for False/True.                                        *)
(***************************************************************************)
SQ == "'"
DQ == "\""
ESQ == "\\'"
EDQ == "\\\""

IntLit(n) == [t |-> "int", n |-> n, q |-> "", s |-> <<>>]
FloatLit(n) == [t |-> "float", n |-> n, q |-> "", s |-> <<>>]
BoolLit(n) == [t |-> "bool", n |-> n, q |-> "", s |-> <<>>]
StrLit(q, s) == [t |-> "str", n |-> 0, q |-> q, s |-> s]
\* an imaginary literal: 1j is n = 1
ComplexLit(n) == [t |-> "complex", n |-> n, q |-> "", s |-> <<>>]

\* a value written as it is (f = "") or as the call f(arg)
Bare(l) == [f |-> "", arg |-> l]
Call(f, l) == [f |-> f, arg |-> l]

Item(k, v) == [k |-> k, v |-> v]
\* a cell holding a dict display
DictText(items) == [kind |-> "dict", items |-> items]
\* a cell holding text that is no dict display (truncated or free text)
Garbage == [kind |-> "junk", items |-> <<>>]
\* an empty cell, or the cell of a column the file does not have: pandas
\* gives NaN, a float and not a string
NaNCell == [kind |-> "nan", items |-> <<>>]

(***************************************************************************)
(* Python values and the four whitelisted constructors.                    *)
(***************************************************************************)
PyInt(n) == [t |-> "int", n |-> n, s |-> <<>>]
PyFloat(n) == [t |-> "float", n |-> n, s |-> <<>>]
PyBool(n) == [t |-> "bool", n |-> n, s |-> <<>>]
PyStr(s) == [t |-> "str", n |-> 0, s |-> s]
\* the outcome of an evaluation that raised
Raised == [t |-> "raise", n |-> 0, s |-> <<>>]

Digits == <<"0", "1", "2", "3", "4", "5", "6", "7", "8", "9">>
IsDigit(c) == \E i \in 1..10 : Digits[i] = c
DigitVal(c) == (CHOOSE i \in 1..10 : Digits[i] = c) - 1

RECURSIVE StripLeft(_)
StripLeft(s) == IF s # <<>> /\ Head(s) = " " THEN StripLeft(Tail(s)) ELSE s

RECURSIVE StripRight(_)
StripRight(s) ==
  IF s # <<>> /\ s[Len(s)] = " " THEN StripRight(SubSeq(s, 1, Len(s) - 1)) ELSE s

\* str.strip()
Strip(s) == StripRight(StripLeft(s))

AllDigits(s) == s # <<>> /\ \A i \in 1..Len(s) : IsDigit(s[i])

RECURSIVE DigitsVal(_)
DigitsVal(s) ==
  IF s = <<>> THEN 0 ELSE 10 * DigitsVal(SubSeq(s, 1, Len(s) - 1)) + DigitVal(s[Len(s)])

RECURSIVE NatStr(_)
NatStr(n) == IF n < 10 THEN <<Digits[n + 1]>> ELSE NatStr(n \div 10) \o <<Digits[(n % 10) + 1]>>

\* position of the decimal point of s, 0 when it has none
DotAt(s) == IF \E i \in 1..Len(s) : s[i] = "." THEN CHOOSE i \in 1..Len(s) : s[i] = "." ELSE 0

\* int(v)
ToInt(v) ==
  CASE v.t = "int" -> v
    [] v.t = "bool" -> PyInt(v.n)
    [] v.t = "float" -> PyInt(v.n \div 10)
    [] v.t = "str" -> IF AllDigits(Strip(v.s)) THEN PyInt(DigitsVal(Strip(v.s))) ELSE Raised
    [] OTHER -> Raised

\* float(v), for the one-decimal floats of the model
ToFloat(v) ==
  CASE v.t = "int" -> PyFloat(10 * v.n)
    [] v.t = "bool" -> PyFloat(10 * v.n)
    [] v.t = "float" -> v
    [] v.t = "str" ->
         LET s == Strip(v.s)
             d == DotAt(s)
         IN  IF AllDigits(s) THEN PyFloat(10 * DigitsVal(s))
             ELSE IF d > 0 /\ Len(s) = d + 1 /\ AllDigits(SubSeq(s, 1, d - 1)) /\ IsDigit(s[d + 1])
                  THEN PyFloat(10 * DigitsVal(SubSeq(s, 1, d - 1)) + DigitVal(s[d + 1]))
                  ELSE Raised
    [] OTHER -> Raised

\* str(v)
ToStr(v) ==
  CASE v.t = "int" -> PyStr(NatStr(v.n))
    [] v.t = "bool" -> PyStr(IF v.n = 1 THEN <<"T", "r", "u", "e">> ELSE <<"F", "a", "l", "s", "e">>)
    [] v.t = "float" -> PyStr(NatStr(v.n \div 10) \o <<".">> \o NatStr(v.n % 10))
    [] v.t = "str" -> v
    [] v.t = "complex" -> PyStr(NatStr(v.n) \o <<"j">>)
    [] OTHER -> Raised

\* bool(v)
ToBool(v) ==
  CASE v.t = "str" -> PyBool(IF v.s = <<>> THEN 0 ELSE 1)
    [] v.t \in {"int", "float", "bool", "complex"} -> PyBool(IF v.n = 0 THEN 0 ELSE 1)
    [] OTHER -> Raised

\* the names the restricted evaluation knows
SafeFuncs == {"int", "float", "str", "bool"}

ApplySafe(f, v) ==
  CASE f = "int" -> ToInt(v)
    [] f = "float" -> ToFloat(v)
    [] f = "str" -> ToStr(v)
    [] f = "bool" -> ToBool(v)
    [] OTHER -> Raised

(***************************************************************************)
(* Reading a literal.                                                      *)
(***************************************************************************)
\* a string literal is closed by the first unescaped occurrence of its
\* delimiter: a body holding one is no literal any more (a syntax error)
StrWellFormed(l) == l.q \in {SQ, DQ} /\ \A i \in 1..Len(l.s) : l.s[i] # l.q

LitWellFormed(l) == l.t # "str" \/ StrWellFormed(l)

\* the characters a source body denotes
Unescape(s) ==
  [i \in 1..Len(s) |-> CASE s[i] = ESQ -> SQ [] s[i] = EDQ -> DQ [] OTHER -> s[i]]

LitVal(l) == IF l.t = "str" THEN PyStr(Unescape(l.s)) ELSE [t |-> l.t, n |-> l.n, s |-> <<>>]

\* no mapping: the decoder raised
NoMap == <<>>
Failed == [ok |-> FALSE, d |-> NoMap]

\* the dict built out of keys ks and values vs, as the sequence of its
\* items in insertion order: a key stands where it first came, a later item
\* of the same key replaces the value
MkDict(ks, vs) ==
  LET n == Len(ks)
      last(k) == CHOOSE i \in 1..n : ks[i] = k /\ \A j \in 1..n : ks[j] = k => j <= i
      firsts == SelectSeq([i \in 1..n |-> i], LAMBDA i : \A j \in 1..(i - 1) : ks[j] # ks[i])
  IN  [p \in 1..Len(firsts) |-> [k |-> ks[firsts[p]], v |-> vs[last(ks[firsts[p]])]]]

\* the keys of a dict
Keys(d) == {d[p].k : p \in 1..Len(d)}
\* d[k]
Get(d, k) == d[CHOOSE p \in 1..Len(d) : d[p].k = k].v

(***************************************************************************)
(* redis: sanitize_config_str.                                             *)
(***************************************************************************)
\* _NP_STR_RE.sub(r"'\2'", s): np.str_(<q>body<q>) becomes 'body', the body
\* copied as it stands
NpStrSubExpr(e) ==
  IF e.f = "np.str_" /\ e.arg.t = "str" /\ StrWellFormed(e.arg)
  THEN Bare(StrLit(SQ, e.arg.s))
  ELSE e

NpStrSub(c) ==
  [c EXCEPT !.items = [i \in 1..Len(c.items) |-> [c.items[i] EXCEPT !.v = NpStrSubExpr(@)]]]

\* ast.literal_eval accepts literals only, no call of any name
LiteralOk(c) ==
  /\ c.kind = "dict"
  /\ \A i \in 1..Len(c.items) :
       /\ StrWellFormed(c.items[i].k)
       /\ c.items[i].v.f = ""
       /\ LitWellFormed(c.items[i].v.arg)

\* eval(s_norm, {"__builtins__": {}}, safe_funcs) of one value
\* a method of the literal called on it: l.strip() is written Call(".strip", l)
StripMethod == ".strip"

\* eval(s_norm, {"__builtins__": {}}, safe_funcs) of one value: a name is
\* looked up in safe_funcs (NameError for any other), an attribute of a
\* literal needs no name and is evaluated (5.strip() is a syntax error,
\* 1.5.strip() and True.strip() raise AttributeError)
EvalExpr(e) ==
  IF ~LitWellFormed(e.arg) THEN Raised
  ELSE IF e.f = "" THEN LitVal(e.arg)
  ELSE IF e.f \in SafeFuncs THEN ApplySafe(e.f, LitVal(e.arg))
  ELSE IF e.f = StripMethod /\ e.arg.t = "str" THEN PyStr(Strip(LitVal(e.arg).s))
  ELSE Raised

EvalOk(c) ==
  /\ c.kind = "dict"
  /\ \A i \in 1..Len(c.items) :
       StrWellFormed(c.items[i].k) /\ EvalExpr(c.items[i].v) # Raised

\* {str(k).strip(): v for k, v in d.items()}
StripKeys(c) ==
  LET d == MkDict([i \in 1..Len(c.items) |-> Unescape(c.items[i].k.s)],
                  [i \in 1..Len(c.items) |-> EvalExpr(c.items[i].v)])
  IN  MkDict([p \in 1..Len(d) |-> Strip(d[p].k)], [p \in 1..Len(d) |-> d[p].v])

sanitize_config_str(c) ==
  IF c.kind = "nan" THEN Failed
  ELSE LET s_norm == NpStrSub(c)
       IN  IF LiteralOk(s_norm) \/ EvalOk(s_norm)
           THEN [ok |-> TRUE, d |-> StripKeys(s_norm)]
           ELSE Failed

(***************************************************************************)
(* nginx, postgresql: json.loads(Config.replace("'", '"')).                *)
(***************************************************************************)
\* str.replace("'", '"') on the tokens of a string literal
ReplaceQuotes(l) ==
  IF l.t # "str" THEN l
  ELSE [l EXCEPT !.q = DQ,
                 !.s = [i \in 1..Len(l.s) |->
                          CASE l.s[i] = SQ -> DQ [] l.s[i] = ESQ -> EDQ [] OTHER -> l.s[i]]]

\* a JSON value: a number or a string; True and False are no JSON, nor is
\* a call
JsonValueOk(e) ==
  /\ e.f = ""
  /\ e.arg.t \in {"int", "float", "str"}
  /\ LitWellFormed(ReplaceQuotes(e.arg))

JsonOk(c) ==
  /\ c.kind = "dict"
  /\ \A i \in 1..Len(c.items) :
       StrWellFormed(ReplaceQuotes(c.items[i].k)) /\ JsonValueOk(c.items[i].v)

\* json.loads of the replaced text; the keys are kept as written
json_loads_replaced(c) ==
  IF JsonOk(c)
  THEN [ok |-> TRUE,
        d |-> MkDict([i \in 1..Len(c.items) |-> Unescape(ReplaceQuotes(c.items[i].k).s)],
                     [i \in 1..Len(c.items) |-> LitVal(ReplaceQuotes(c.items[i].v.arg))])]
  ELSE Failed

(***************************************************************************)
(* The output encodings: json.dump(d, fh, indent=2, sort_keys=True) and    *)
(* the lines of write_redis_conf.                                          *)
(***************************************************************************)
\* the characters of the model's strings, by code point
Alphabet ==
  <<" ", DQ, SQ, ".", "0", "1", "2", "3", "4", "5", "6", "7", "8", "9",
    "F", "T", "_", "a", "b", "c", "e", "f", "g", "i", "j", "l", "n", "o", "r", "s", "t", "u", "x">>

Rank(c) == CHOOSE i \in 1..Len(Alphabet) : Alphabet[i] = c

\* s < t for two str, as sort_keys compares the keys
RECURSIVE StrLess(_, _)
StrLess(s, t) ==
  IF t = <<>> THEN FALSE
  ELSE IF s = <<>> THEN TRUE
  ELSE IF Head(s) = Head(t) THEN StrLess(Tail(s), Tail(t))
  ELSE Rank(Head(s)) < Rank(Head(t))

\* the items of a dict by ascending key
SortedItems(d) ==
  IF d = <<>> THEN <<>>
  ELSE LET n == Len(d)
           o == CHOOSE o \in [1..n -> 1..n] :
                  \A p, q \in 1..n : p < q => StrLess(d[o[p]].k, d[o[q]].k)
       IN  [p \in 1..n |-> d[o[p]]]

\* a JSON string: a double quote inside it is escaped
JsonEscape(s) == [i \in 1..Len(s) |-> IF s[i] = DQ THEN EDQ ELSE s[i]]

\* float.__repr__ / str(float) of the one-decimal floats of the model
FloatRepr(n) == NatStr(n \div 10) \o <<".">> \o NatStr(n % 10)

\* the values json.dump can encode; any other raises TypeError
Serialisable(v) == v.t \in {"int", "float", "bool", "str"}

\* the JSON token of a value; nothing is written for a value that cannot
\* be encoded
JsonToken(v) ==
  CASE v.t = "bool" -> [t |-> IF v.n = 1 THEN "true" ELSE "false", s |-> <<>>]
    [] v.t = "int" -> [t |-> "number", s |-> NatStr(v.n)]
    [] v.t = "float" -> [t |-> "number", s |-> FloatRepr(v.n)]
    [] v.t = "str" -> [t |-> "string", s |-> JsonEscape(v.s)]
    [] OTHER -> [t |-> "missing", s |-> <<>>]

Mapping(d) == [form |-> "mapping", d |-> d, text |-> NaNCell]
\* {"raw_config": best_row["Config"]}
RawConfig(text) == [form |-> "raw_config", d |-> NoMap, text |-> text]

\* the document json.dump writes into the opened file: the members by
\* ascending key; the one member of the raw form is the config text as a
\* JSON string.  The members are written one by one: at a value that
\* cannot be encoded json.dump raises, and the file is left with the
\* members before it and the key of that one
json_dump(c) ==
  IF c.form = "raw_config"
  THEN [members |-> <<[k |-> <<"r", "a", "w", "_", "c", "o", "n", "f", "i", "g">>,
                       v |-> [t |-> "string", s |-> <<>>]]>>,
        raw |-> c.text,
        complete |-> TRUE]
  ELSE LET items == SortedItems(c.d)
           bad == {p \in 1..Len(items) : ~Serialisable(items[p].v)}
           upto == IF bad = {} THEN Len(items) ELSE CHOOSE p \in bad : \A r \in bad : p <= r
       IN  [members |-> [p \in 1..upto |-> [k |-> JsonEscape(items[p].k), v |-> JsonToken(items[p].v)]],
            raw |-> NaNCell,
            complete |-> bad = {}]

\* the value a JSON token denotes
JsonValue(tok) ==
  CASE tok.t = "true" -> PyBool(1)
    [] tok.t = "false" -> PyBool(0)
    [] tok.t = "number" -> IF DotAt(tok.s) > 0 THEN ToFloat(PyStr(tok.s)) ELSE ToInt(PyStr(tok.s))
    [] OTHER -> PyStr(Unescape(tok.s))

\* faulty variant: every value written as its str()
ConfValueStr(v) == ToStr(v).s

\* write_redis_conf: one line "<key> <value>" per item, in the order of
\* the dict; a bool is yes or no, any other value its str()
ConfValue(v) == IF v.t = "bool" THEN (IF v.n = 1 THEN <<"y", "e", "s">> ELSE <<"n", "o">>) ELSE ToStr(v).s

redis_conf(d) == [p \in 1..Len(d) |-> [k |-> d[p].k, val |-> ConfValue(d[p].v)]]

(***************************************************************************)
(* Input tables.  A cell of a numeric column is the text of the CSV; an    *)
(* empty text is a missing cell (NaN).                                     *)
(***************************************************************************)
\* what pandas makes of a cell of a column: the number, when it is one
IsNumber(c) == c \in {"-2", "1", "2", "8", "9", "10"}

Num(c) ==
  CASE c = "-2" -> -2
    [] c = "1" -> 1
    [] c = "2" -> 2
    [] c = "8" -> 8
    [] c = "9" -> 9
    [] c = "10" -> 10
    [] OTHER -> 0

Abs(n) == IF n < 0 THEN -n ELSE n

\* the configuration texts the rows of the tables carry
GoodConfig == DictText(<< Item(StrLit(SQ, <<"a">>), Bare(IntLit(1))) >>)
ConfigTexts == {GoodConfig, Garbage}

WorkerCells == {"8", "9", "10", "x"}
PerformanceCells == {"1", "2"}

\* the columns of a TUNA_run*.csv
Columns == {"Worker", "Performance", "Config"}
\* the headers of the input files: complete, or with one column absent
Headers == {Columns} \cup {Columns \ {c} : c \in Columns}

\* the rows a file of header cols can hold; an absent column has no cells.
\* The Config cell of a row is text the run reads for the selected row
\* alone: it is drawn when it is read (ConfigCells)
RowsOf(cols) ==
  [Worker : IF "Worker" \in cols THEN WorkerCells ELSE {""},
   Performance : IF "Performance" \in cols THEN PerformanceCells ELSE {""}]

ConfigCells(cols) == IF "Config" \in cols THEN ConfigTexts ELSE {NaNCell}

SeqsUpTo(S, n) == UNION {[1..k -> S] : k \in 0..n}

\* the lines pd.read_csv(skiprows=range(1, 11)) drops after the header
SkipRows == 10

\* a line of the producer's leading block: were it not skipped, it would be
\* the first row of the largest Performance
PreambleRow(cols) ==
  [Worker |-> IF "Worker" \in cols THEN "9" ELSE "",
   Performance |-> IF "Performance" \in cols THEN "2" ELSE ""]

\* a file: whether pandas can parse it, its header, and the lines under
\* the header: lead lines of the producer's leading block, then rows
CsvFile(readable, cols, lead, rows) ==
  [readable |-> readable, cols |-> cols, lead |-> lead, rows |-> rows]

\* the lines under the header, one by one
Lines(file) == [i \in 1..file.lead |-> PreambleRow(file.cols)] \o file.rows

\* the files of at most n rows after the leading block; an unparseable file
\* has no table to speak of
FilesUpTo(n) ==
  {CsvFile(FALSE, Columns, 0, <<>>)} \cup
  UNION {{CsvFile(TRUE, cols, SkipRows, rows) : rows \in SeqsUpTo(RowsOf(cols), n)} :
         cols \in Headers}

\* how many lines a file has under its header before the rows drawn: none,
\* one less than the lines skipped, as many, one more
Leads == {0, SkipRows - 1, SkipRows, SkipRows + 1}

\* files of any length: the lines under the header can be fewer than the
\* lines skipped, and a drawn row can be among the lines skipped
AnyFilesUpTo(n) ==
  {CsvFile(FALSE, Columns, 0, <<>>)} \cup
  UNION {{CsvFile(TRUE, cols, lead, rows) : rows \in SeqsUpTo(RowsOf(cols), n), lead \in Leads} :
         cols \in Headers}

RECURSIVE DataRows(_)
DataRows(fs) == IF fs = <<>> THEN 0 ELSE Len(Head(fs).rows) + DataRows(Tail(fs))

(***************************************************************************)
(* redis: the one table full_seed1.csv.                                    *)
(***************************************************************************)
BudgetCells == {"1", "2"}
ReportedCells == {"-2", "1", "2", "x"}

RedisColumns == {"CleanConfig", "Budget", "Reported Value"}
RedisHeaders == {RedisColumns} \cup {RedisColumns \ {c} : c \in RedisColumns}

\* a second configuration that decodes, to tell the rows of a table apart
OtherConfig == DictText(<< Item(StrLit(SQ, <<"a">>), Bare(IntLit(2))) >>)
CleanConfigTexts == ConfigTexts \cup {OtherConfig}

RedisRowsOf(cols) ==
  [Budget : IF "Budget" \in cols THEN BudgetCells ELSE {""},
   Reported : IF "Reported Value" \in cols THEN ReportedCells ELSE {""},
   CleanConfig : IF "CleanConfig" \in cols THEN CleanConfigTexts ELSE {NaNCell}]

\* whether the file is there, whether pandas can parse it, header and rows
RedisCsv(exists, readable, cols, rows) ==
  [exists |-> exists, readable |-> readable, cols |-> cols, rows |-> rows]

NoCsv == RedisCsv(FALSE, FALSE, RedisColumns, <<>>)

RedisCsvs(n) ==
  {NoCsv, RedisCsv(TRUE, FALSE, RedisColumns, <<>>)} \cup
  UNION {{RedisCsv(TRUE, TRUE, cols, rows) : rows \in SeqsUpTo(RedisRowsOf(cols), n)} :
         cols \in RedisHeaders}

(***************************************************************************)
(* The state of a run.                                                     *)
(***************************************************************************)
VARIABLES
  variant,   \* which finder runs: "nginx", "postgresql" or "redis"
  nfiles,    \* nginx, postgresql: how many files the glob matched
  files,     \* nginx, postgresql: the files read so far, in sorted path order
  csv,       \* redis: full_seed1.csv
  pc,        \* where the run stands
  pool,      \* all_rows (redis: df)
  order,     \* redis: the ranking pick_best walks
  best,      \* the selected row, <<>> before the selection
  cfg,       \* the decoded configuration, <<>> before the decoding
  warned,    \* the files a [WARN] line was printed for
  diag,      \* the message of sys.exit, or the exception that ended the run
  outJson,   \* what this run wrote to OUT_FILE / OUT_JSON, <<>> if untouched
  outConf    \* redis: what this run wrote to OUT_CONF, <<>> if untouched

vars == <<variant, nfiles, files, csv, pc, pool, order, best, cfg, warned, diag, outJson, outConf>>

TabularVariants == {"nginx", "postgresql"}

Init ==
  /\ variant \in TabularVariants \cup {"redis"}
  /\ IF variant = "redis"
     THEN nfiles = 0 /\ csv \in RedisCsvs(MaxRows)
     ELSE nfiles \in 0..MaxFiles /\ csv = NoCsv
  /\ files = <<>>
  /\ pc = "start"
  /\ pool = <<>>
  /\ order = <<>>
  /\ best = <<>>
  /\ cfg = <<>>
  /\ warned = {}
  /\ diag = ""
  /\ outJson = <<>>
  /\ outConf = <<>>

(***************************************************************************)
(* nginx, postgresql.                                                      *)
(***************************************************************************)
\* the fidelity threshold of both finders
Threshold == 9

\* faulty variant: no line is skipped
read_csv_all(file) ==
  LET all == Lines(file)
  IN  [i \in 1..Len(all) |->
         [Worker |-> all[i].Worker, Performance |-> all[i].Performance, line |-> i]]

\* pd.read_csv(csv_path, skiprows=range(1, 11)): the header, then the lines
\* after the ten skipped ones, each with its line number
read_csv(file) ==
  LET all == Lines(file)
  IN  [i \in 1..(IF Len(all) > SkipRows THEN Len(all) - SkipRows ELSE 0) |->
         [Worker |-> all[SkipRows + i].Worker,
          Performance |-> all[SkipRows + i].Performance,
          line |-> SkipRows + i]]

\* a column holding a cell that is no number is read as strings, and
\* comparing a string with 9 raises TypeError
WorkerIsObject(df) == \E i \in 1..Len(df) : df[i].Worker # "" /\ ~IsNumber(df[i].Worker)

\* faulty variant: the threshold itself is left out
HighFidelityStrict(row) == IsNumber(row.Worker) /\ Num(row.Worker) > Threshold

\* faulty variant: the threshold one too low
HighFidelityLow(row) == IsNumber(row.Worker) /\ Num(row.Worker) >= Threshold - 1

\* faulty variant: the rows of exactly the fidelity t
WorkerExactly(row, t) == IsNumber(row.Worker) /\ Num(row.Worker) = t

\* df["Worker"] >= t; NaN compares False
WorkerAtLeast(row, t) == IsNumber(row.Worker) /\ Num(row.Worker) >= t

\* df["Worker"] >= 9
HighFidelity(row) == WorkerAtLeast(row, Threshold)

\* .assign(__source=str(csv_path))
Tagged(row, source) ==
  [Worker |-> row.Worker, Performance |-> row.Performance, line |-> row.line,
   source |-> source]

\* load_candidates: the rows a file gives, a warning, or an exception
load_candidates(file, source) ==
  IF ~file.readable
  THEN [rows |-> <<>>, warn |-> TRUE, raise |-> ""]
  ELSE IF "Worker" \notin file.cols \/ "Performance" \notin file.cols
  THEN [rows |-> <<>>, warn |-> TRUE, raise |-> ""]
  ELSE LET df == read_csv(file)
           kept == SelectSeq(df, HighFidelity)
       IN  IF WorkerIsObject(df)
           THEN [rows |-> <<>>, warn |-> FALSE, raise |-> "TypeError"]
           ELSE [rows |-> [i \in 1..Len(kept) |-> Tagged(kept[i], source)],
                 warn |-> FALSE, raise |-> ""]

\* Series.idxmax(): the first label of the largest value
idxmax(rows) ==
  CHOOSE i \in 1..Len(rows) :
    /\ \A j \in 1..Len(rows) : Num(rows[j].Performance) <= Num(rows[i].Performance)
    /\ \A j \in 1..(i - 1) : Num(rows[j].Performance) < Num(rows[i].Performance)

\* faulty variant: the check of the glob result is left out
FindFilesUnchecked ==
  /\ variant \in TabularVariants
  /\ pc = "start"
  /\ pc' = "load"
  /\ UNCHANGED <<variant, nfiles, files, csv, pool, order, best, cfg, warned, diag, outJson, outConf>>

\* main: the glob and its check
FindFiles ==
  /\ variant \in TabularVariants
  /\ pc = "start"
  /\ IF nfiles = 0
     THEN pc' = "fatal" /\ diag' = "no CSV files found"
     ELSE pc' = "load" /\ diag' = diag
  /\ UNCHANGED <<variant, nfiles, files, csv, pool, order, best, cfg, warned, outJson, outConf>>

\* gather_all_rows / pd.concat: load_candidates of the next file, which is
\* one of the files F
LoadFrom(F) ==
  /\ variant \in TabularVariants
  /\ pc = "load"
  /\ \E file \in F :
       LET source == Len(files) + 1
           got == load_candidates(file, source)
       IN  /\ files' = Append(files, file)
           /\ IF got.raise # ""
              THEN /\ pc' = "crash"
                   /\ diag' = got.raise
                   /\ UNCHANGED <<pool, warned>>
              ELSE /\ pool' = pool \o got.rows
                   /\ warned' = IF got.warn THEN warned \cup {source} ELSE warned
                   /\ pc' = IF source = nfiles THEN "select" ELSE "load"
                   /\ diag' = diag
  /\ UNCHANGED <<variant, nfiles, csv, order, best, cfg, outJson, outConf>>

\* the content of the file is drawn as it is read
LoadCandidates == LoadFrom(FilesUpTo(MaxRows - DataRows(files)))

\* all_rows.loc[label]: the row, with the Config cell read from its file
Located(rows, label, text) ==
  [Worker |-> rows[label].Worker, Performance |-> rows[label].Performance,
   line |-> rows[label].line, source |-> rows[label].source,
   label |-> label, Config |-> text]

\* main: the empty check and the choice of best_row
SelectBest ==
  /\ variant \in TabularVariants
  /\ pc = "select"
  /\ IF pool = <<>>
     THEN pc' = "fatal" /\ diag' = "no high-fidelity rows" /\ best' = best
     ELSE LET label == idxmax(pool)
          IN  \E text \in ConfigCells(files[pool[label].source].cols) :
                /\ pc' = "decode"
                /\ diag' = diag
                /\ best' = <<Located(pool, label, text)>>
  /\ UNCHANGED <<variant, nfiles, files, csv, pool, order, cfg, warned, outJson, outConf>>

\* nginx main: json.loads under try / except json.JSONDecodeError
DecodeNginx ==
  /\ variant = "nginx"
  /\ pc = "decode"
  /\ LET text == best[1].Config
         got == json_loads_replaced(text)
     IN  IF text.kind = "nan"
         THEN pc' = "crash" /\ diag' = "AttributeError" /\ cfg' = cfg
         ELSE /\ pc' = "write"
              /\ diag' = diag
              /\ cfg' = IF got.ok THEN <<Mapping(got.d)>> ELSE <<RawConfig(text)>>
  /\ UNCHANGED <<variant, nfiles, files, csv, pool, order, best, warned, outJson, outConf>>

\* postgresql main: json.loads with no handler
DecodePostgresql ==
  /\ variant = "postgresql"
  /\ pc = "decode"
  /\ LET text == best[1].Config
         got == json_loads_replaced(text)
     IN  IF text.kind = "nan"
         THEN pc' = "crash" /\ diag' = "AttributeError" /\ cfg' = cfg
         ELSE IF ~got.ok
         THEN pc' = "crash" /\ diag' = "JSONDecodeError" /\ cfg' = cfg
         ELSE pc' = "write" /\ diag' = diag /\ cfg' = <<Mapping(got.d)>>
  /\ UNCHANGED <<variant, nfiles, files, csv, pool, order, best, warned, outJson, outConf>>

\* main: json.dump(cfg_dict, fh, indent=2, sort_keys=True)
WriteOutFile ==
  /\ variant \in TabularVariants
  /\ pc = "write"
  /\ outJson' = <<json_dump(cfg[1])>>
  /\ pc' = "done"
  /\ UNCHANGED <<variant, nfiles, files, csv, pool, order, best, cfg, warned, diag, outConf>>

(***************************************************************************)
(* redis.                                                                  *)
(***************************************************************************)
\* pd.to_numeric(candidates["Reported Value"], errors="coerce") is NaN for
\* a cell that is no number
RvIsNaN(row) == ~IsNumber(row.Reported)
AbsRv(row) == Abs(Num(row.Reported))

\* df["Budget"].max() and the labels of the rows at that Budget, in the
\* order of the table
max_budget(df) ==
  Num(df[CHOOSE i \in 1..Len(df) : \A j \in 1..Len(df) : Num(df[j].Budget) <= Num(df[i].Budget)].Budget)

Candidates(df) == {i \in 1..Len(df) : Num(df[i].Budget) = max_budget(df)}

\* candidates["__rv"].abs().sort_values(ascending=False).index: the labels
\* by descending |Reported Value|, NaN last in the order of the table.  The
\* sort is numpy's quicksort, which is not stable: rows of equal magnitude
\* come in whatever order the build produces
Rankings(df) ==
  LET C == Candidates(df)
      n == Cardinality(C)
  IN  {o \in [1..n -> C] :
         /\ \A p, q \in 1..n : p # q => o[p] # o[q]
         /\ \A p, q \in 1..n : p < q =>
              IF RvIsNaN(df[o[p]]) THEN RvIsNaN(df[o[q]]) /\ o[p] < o[q]
              ELSE RvIsNaN(df[o[q]]) \/ AbsRv(df[o[p]]) >= AbsRv(df[o[q]])}

Parses(row) == sanitize_config_str(row.CleanConfig).ok

\* faulty variant: the head of the ranking is taken without trying its CleanConfig
FirstRanked(df, o) == o[1]

\* the walk of the ranking: the first label whose CleanConfig parses, 0
\* when none does
FirstParsable(df, o) ==
  IF \E p \in 1..Len(o) : Parses(df[o[p]])
  THEN o[CHOOSE p \in 1..Len(o) : Parses(df[o[p]]) /\ \A r \in 1..(p - 1) : ~Parses(df[o[r]])]
  ELSE 0

\* candidates["__rv"].abs().idxmax(): the first label of the largest
\* magnitude, NaN skipped; 0 when every value is NaN (idxmax gives NaN or
\* raises, and the run ends on it)
AbsIdxMax(df) ==
  LET C == {i \in Candidates(df) : ~RvIsNaN(df[i])}
  IN  IF C = {} THEN 0
      ELSE CHOOSE i \in C :
             /\ \A j \in C : AbsRv(df[j]) <= AbsRv(df[i])
             /\ \A j \in C : j < i => AbsRv(df[j]) < AbsRv(df[i])

\* candidates.loc[idx]: the row with its label
Picked(df, label) ==
  [Budget |-> df[label].Budget, Reported |-> df[label].Reported,
   CleanConfig |-> df[label].CleanConfig, label |-> label]

\* main: the path of the CSV (CSV is None: the clone is searched)
LocateCsv ==
  /\ variant = "redis"
  /\ pc = "start"
  /\ IF csv.exists
     THEN pc' = "read" /\ diag' = diag
     ELSE pc' = "fatal" /\ diag' = "no full_seed1.csv found"
  /\ UNCHANGED <<variant, nfiles, files, csv, pool, order, best, cfg, warned, outJson, outConf>>

\* load_csv: both engines fail on an unparseable file; a column missing
\* ends the run by sys.exit
LoadCsv ==
  /\ variant = "redis"
  /\ pc = "read"
  /\ IF ~csv.readable
     THEN pc' = "crash" /\ diag' = "ParserError" /\ pool' = pool
     ELSE IF csv.cols # RedisColumns
     THEN pc' = "fatal" /\ diag' = "missing columns" /\ pool' = pool
     ELSE pc' = "pick" /\ diag' = diag /\ pool' = csv.rows
  /\ UNCHANGED <<variant, nfiles, files, csv, order, best, cfg, warned, outJson, outConf>>

\* pick_best
PickBest ==
  /\ variant = "redis"
  /\ pc = "pick"
  /\ IF pool = <<>>
     THEN pc' = "fatal" /\ diag' = "no rows in CSV" /\ UNCHANGED <<order, best>>
     ELSE \E o \in Rankings(pool) :
            /\ order' = o
            /\ LET hit == FirstParsable(pool, o)
                   fallback == AbsIdxMax(pool)
               IN  IF hit # 0
                   THEN pc' = "sanitize" /\ diag' = diag /\ best' = <<Picked(pool, hit)>>
                   ELSE IF fallback # 0
                   THEN pc' = "sanitize" /\ diag' = diag /\ best' = <<Picked(pool, fallback)>>
                   ELSE pc' = "crash" /\ diag' = "KeyError" /\ best' = best
  /\ UNCHANGED <<variant, nfiles, files, csv, pool, cfg, warned, outJson, outConf>>

\* main: cfg = sanitize_config_str(best["CleanConfig"]), with no handler
SanitizeBest ==
  /\ variant = "redis"
  /\ pc = "sanitize"
  /\ LET got == sanitize_config_str(best[1].CleanConfig)
     IN  IF got.ok
         THEN pc' = "write" /\ diag' = diag /\ cfg' = <<Mapping(got.d)>>
         ELSE pc' = "crash" /\ diag' = "SyntaxError" /\ cfg' = cfg
  /\ UNCHANGED <<variant, nfiles, files, csv, pool, order, best, warned, outJson, outConf>>

\* write_json(cfg, Path(OUT_JSON)): the file is opened for writing, and
\* json.dump writes into it until it is through or raises
WriteJson ==
  /\ variant = "redis"
  /\ pc = "write"
  /\ outJson' = <<json_dump(cfg[1])>>
  /\ IF json_dump(cfg[1]).complete
     THEN pc' = "conf" /\ diag' = diag
     ELSE pc' = "crash" /\ diag' = "TypeError"
  /\ UNCHANGED <<variant, nfiles, files, csv, pool, order, best, cfg, warned, outConf>>

\* write_redis_conf(cfg, Path(OUT_CONF))
WriteRedisConf ==
  /\ variant = "redis"
  /\ pc = "conf"
  /\ outConf' = <<redis_conf(cfg[1].d)>>
  /\ pc' = "done"
  /\ UNCHANGED <<variant, nfiles, files, csv, pool, order, best, cfg, warned, diag, outJson>>

\* the exit status of the process: sys.exit(message) and an uncaught
\* exception both end it with 1; -1 while it runs
ExitStatus ==
  CASE pc = "done" -> 0
    [] pc \in {"fatal", "crash"} -> 1
    [] OTHER -> -1

Next ==
  \/ FindFiles
  \/ LoadCandidates
  \/ SelectBest
  \/ DecodeNginx
  \/ DecodePostgresql
  \/ WriteOutFile
  \/ LocateCsv
  \/ LoadCsv
  \/ PickBest
  \/ SanitizeBest
  \/ WriteJson
  \/ WriteRedisConf

Spec == Init /\ [][Next]_vars

(***************************************************************************)
(* The decoding on its own: a run taken up where one row has been          *)
(* selected, the config text of that row drawn from the texts below.       *)
(***************************************************************************)
Literals ==
  {IntLit(0), IntLit(5), FloatLit(15), BoolLit(0), BoolLit(1),
   StrLit(SQ, <<>>), StrLit(SQ, <<"x">>), StrLit(SQ, <<"5">>), StrLit(SQ, <<"1", ".", "5">>),
   StrLit(DQ, <<"i", "t", SQ, "s">>), StrLit(SQ, <<"i", "t", ESQ, "s">>),
   ComplexLit(1)}

\* what a value can be a call of: the numpy wrapper, the four
\* constructors, a name outside the whitelist, and a method of the literal
Callees == {"np.str_", "len", StripMethod} \cup SafeFuncs

Exprs == {Bare(l) : l \in Literals} \cup {Call(f, l) : f \in Callees, l \in Literals}

KeyLits == {StrLit(SQ, <<"a">>), StrLit(SQ, <<" ", "b", " ">>)}

Texts == {Garbage} \cup {DictText(items) : items \in SeqsUpTo([k : KeyLits, v : Exprs], MaxItems)}

OneRowFile == CsvFile(TRUE, Columns, SkipRows, <<[Worker |-> "9", Performance |-> "1"]>>)

InitDecode ==
  /\ variant \in TabularVariants \cup {"redis"}
  /\ \E text \in Texts :
       IF variant = "redis"
       THEN /\ nfiles = 0 /\ files = <<>>
            /\ csv = RedisCsv(TRUE, TRUE, RedisColumns,
                              <<[Budget |-> "1", Reported |-> "1", CleanConfig |-> text]>>)
            /\ pool = csv.rows
            /\ order = <<1>>
            /\ best = <<Picked(pool, 1)>>
            /\ pc = "sanitize"
       ELSE /\ nfiles = 1 /\ files = <<OneRowFile>>
            /\ csv = NoCsv
            /\ pool = load_candidates(OneRowFile, 1).rows
            /\ order = <<>>
            /\ best = <<Located(pool, 1, text)>>
            /\ pc = "decode"
  /\ cfg = <<>>
  /\ warned = {}
  /\ diag = ""
  /\ outJson = <<>>
  /\ outConf = <<>>

NextDecode ==
  \/ DecodeNginx
  \/ DecodePostgresql
  \/ WriteOutFile
  \/ SanitizeBest
  \/ WriteJson
  \/ WriteRedisConf

DecodeSpec == InitDecode /\ [][NextDecode]_vars

(***************************************************************************)
(* The loading on its own: load_candidates applied to one file, whatever   *)
(* the file.                                                               *)
(***************************************************************************)
InitLoad ==
  /\ variant \in TabularVariants
  /\ nfiles = 1
  /\ files = <<>>
  /\ csv = NoCsv
  /\ pc = "load"
  /\ pool = <<>>
  /\ order = <<>>
  /\ best = <<>>
  /\ cfg = <<>>
  /\ warned = {}
  /\ diag = ""
  /\ outJson = <<>>
  /\ outConf = <<>>

\* load_candidates of a file of any length
LoadAnyFile == LoadFrom(AnyFilesUpTo(MaxRows))

NextLoad == LoadAnyFile

LoadSpec == InitLoad /\ [][NextLoad]_vars

(***************************************************************************)
(* Properties.  Rows are the rows pandas loads: those after the ten        *)
(* skipped lines of a file.                                                *)
(***************************************************************************)
Tabular == variant \in TabularVariants

\* the rows of the files read so far that have a Worker of 9 or more and a
\* Performance: <<file, row>>
HighRows ==
  {fr \in UNION {{<<f, i>> : i \in 1..Len(files[f].rows)} : f \in 1..Len(files)} :
     LET row == files[fr[1]].rows[fr[2]]
     IN  /\ files[fr[1]].readable
         /\ IsNumber(row.Worker) /\ Num(row.Worker) >= 9
         /\ IsNumber(row.Performance)}

PerfOf(fr) == Num(files[fr[1]].rows[fr[2]].Performance)

C2_BestIsMaxReportedValue ==
  (variant = "redis" /\ best # <<>>) =>
     /\ \A i \in 1..Len(pool) : Num(pool[i].Budget) <= Num(best[1].Budget)
     /\ IsNumber(best[1].Reported)
     /\ \A i \in 1..Len(pool) :
          (pool[i].Budget = best[1].Budget /\ IsNumber(pool[i].Reported))
            => Num(pool[i].Reported) <= Num(best[1].Reported)

NoInputFile == (Tabular /\ nfiles = 0) \/ (variant = "redis" /\ ~csv.exists)

OutputsUntouched == outJson = <<>> /\ outConf = <<>>

\* C4: with no input file the run ends with a non-zero exit status and a
\* diagnostic, and writes no output file at any point.
C4_NoInputIsFatal ==
  NoInputFile =>
     /\ OutputsUntouched
     /\ \/ pc = "start" /\ ENABLED Next
        \/ pc = "fatal" /\ ExitStatus # 0 /\ diag # ""

C4_Witness == NoInputFile /\ pc = "fatal"

\* every file has been read, and none has a row with Worker >= 9
NoHighFidelityRow ==
  /\ Tabular /\ nfiles >= 1
  /\ \A f \in 1..Len(files) : \A i \in 1..Len(files[f].rows) :
       ~(IsNumber(files[f].rows[i].Worker) /\ Num(files[f].rows[i].Worker) >= 9)

C6_MissingColumnSkipped ==
  Tabular =>
    \A f \in 1..Len(files) :
       (files[f].readable /\ files[f].cols # Columns) =>
          /\ f \in warned
          /\ \A i \in 1..Len(pool) : pool[i].source # f
          /\ (best # <<>> => best[1].source # f)

WholeRunConditions ==
  {"no CSV files found", "no high-fidelity rows", "no full_seed1.csv found", "no rows in CSV"}

\* C7: every variant: a run ends abnormally only on a whole-run condition
\* (no input files, no candidate rows), never on an uncaught exception and
\* never on the error of one file or one row.
C7_OnlyWholeRunFailures ==
  /\ pc # "crash"
  /\ (pc = "fatal" => diag \in WholeRunConditions)

SelectedUndecodable ==
  /\ variant \in {"nginx", "redis"} /\ best # <<>>
  /\ IF variant = "nginx"
     THEN best[1].Config.kind # "nan" /\ ~json_loads_replaced(best[1].Config).ok
     ELSE best[1].CleanConfig.kind # "nan" /\ ~sanitize_config_str(best[1].CleanConfig).ok

\* C9: nginx, redis: when the config text of the selected row cannot be
\* decoded the run does not crash and writes the JSON file with the raw
\* config string.
C9_UndecodableWritesRaw ==
  SelectedUndecodable =>
     /\ pc # "crash"
     /\ (pc \notin {"done", "fatal"} => ENABLED Next)
     /\ (pc = "done" =>
           outJson = <<json_dump(RawConfig(IF variant = "nginx" THEN best[1].Config
                                             ELSE best[1].CleanConfig))>>)

\* the calls the claim takes for wrappers of a scalar: np.str_ around a
\* string, a whitelisted constructor around a scalar of its own type
\* (int(5), float(1.5), str('x'), bool(True)); a constructor around a
\* scalar of another type converts it and is no wrapper of that literal
IsWrapper(e) == (e.f = "np.str_" /\ e.arg.t = "str") \/ (e.f \in SafeFuncs /\ e.arg.t = e.f)

HasWrapper(c) == \E i \in 1..Len(c.items) : IsWrapper(c.items[i].v)

\* the same text with every wrapper removed, the bare literal in its place
Unwrapped(c) ==
  [c EXCEPT !.items =
     [i \in 1..Len(c.items) |->
        IF IsWrapper(c.items[i].v) THEN [c.items[i] EXCEPT !.v = Bare(@.arg)] ELSE c.items[i]]]

\* C10: redis: for a text with np.str_('x') or int(..), float(..), str(..),
\* bool(..) around a scalar, sanitize_config_str gives what it gives for
\* the text with the bare literal in place of the wrapper.
C10_WrapperSameAsLiteral ==
  (variant = "redis" /\ best # <<>> /\ HasWrapper(best[1].CleanConfig)
     /\ pc \in {"write", "conf", "done", "crash"}) =>
     LET bare == sanitize_config_str(Unwrapped(best[1].CleanConfig))
     IN  IF pc = "crash" THEN ~bare.ok ELSE bare.ok /\ cfg = <<Mapping(bare.d)>>

\* the config text of the selected row
SelectedText == IF variant = "redis" THEN best[1].CleanConfig ELSE best[1].Config

\* a well-formed dict text in single quotes: every key a single-quoted
\* string (with no blank around it: the trimming of keys is C12's), every
\* value a number, True or False, or a single-quoted string
SingleQuotedDict(c) ==
  /\ c.kind = "dict"
  /\ \A i \in 1..Len(c.items) :
       /\ c.items[i].k.q = SQ /\ StrWellFormed(c.items[i].k)
       /\ Strip(c.items[i].k.s) = c.items[i].k.s
       /\ c.items[i].v.f = ""
       /\ c.items[i].v.arg.t \in {"int", "float", "bool", "str"}
       /\ c.items[i].v.arg.t = "str" => (c.items[i].v.arg.q = SQ /\ StrWellFormed(c.items[i].v.arg))

\* the mapping a dict text denotes
Denoted(c) ==
  MkDict([i \in 1..Len(c.items) |-> Unescape(c.items[i].k.s)],
         [i \in 1..Len(c.items) |-> LitVal(c.items[i].v.arg)])

\* the document has the keys of the mapping d and, under each, its value
SameContent(doc, d) ==
  /\ {Unescape(doc.members[p].k) : p \in 1..Len(doc.members)} = Keys(d)
  /\ \A p \in 1..Len(doc.members) :
       JsonValue(doc.members[p].v) = Get(d, Unescape(doc.members[p].k))

\* C11: every variant: for a well-formed single-quoted dict text (string
\* keys; number, boolean or string values) the run decodes it and writes a
\* JSON document, sorted by key, with the keys the text denotes and under
\* each key the value the text denotes.
C11_RoundTrip ==
  (best # <<>> /\ SingleQuotedDict(SelectedText) /\ pc \in {"done", "crash"}) =>
     /\ pc = "done"
     /\ outJson # <<>>
     /\ \A p, q \in 1..Len(outJson[1].members) :
          p < q => StrLess(outJson[1].members[p].k, outJson[1].members[q].k)
     /\ SameContent(outJson[1], Denoted(SelectedText))

Trimmed(k) == Strip(k) = k

\* C12: every variant: every key of the decoded configuration written to
\* an output file has no blank at its start or its end, whatever blanks
\* the keys of the config text carry.
C12_WrittenKeysTrimmed ==
  /\ outJson # <<>> =>
        \A p \in 1..Len(outJson[1].members) : Trimmed(Unescape(outJson[1].members[p].k))
  /\ outConf # <<>> =>
        \A p \in 1..Len(outConf[1]) : Trimmed(outConf[1][p].k)

\* C13: redis: the conf file has one line per item of the decoded
\* configuration, and the line of a boolean value carries yes for True and
\* no for False, never the spelling True or False.
C13_BooleansAsYesNo ==
  (variant = "redis" /\ outConf # <<>>) =>
     /\ Len(outConf[1]) = Len(cfg[1].d)
     /\ \A p \in 1..Len(outConf[1]) :
          /\ outConf[1][p].k = cfg[1].d[p].k
          /\ cfg[1].d[p].v.t = "bool" =>
               /\ outConf[1][p].val = IF cfg[1].d[p].v.n = 1 THEN <<"y", "e", "s">> ELSE <<"n", "o">>
               /\ outConf[1][p].val \notin {<<"T", "r", "u", "e">>, <<"F", "a", "l", "s", "e">>}

\* a conf file written for the text {'a': False}
C13_Witness ==
  /\ variant = "redis" /\ pc = "done" /\ outConf # <<>>
  /\ Len(best[1].CleanConfig.items) = 1
  /\ best[1].CleanConfig.items[1].v = Bare(BoolLit(0))
  /\ outConf[1][1].val = <<"n", "o">>

\* redis: the row and the files of a run over the table df whose sort
\* gives the ranking o
PickOf(df, o) == IF FirstParsable(df, o) # 0 THEN FirstParsable(df, o) ELSE AbsIdxMax(df)

OutcomeOf(df, o) ==
  LET row == Picked(df, PickOf(df, o))
      got == sanitize_config_str(row.CleanConfig)
  IN  [best |-> <<row>>,
       json |-> <<json_dump(Mapping(got.d))>>,
       conf |-> <<redis_conf(got.d)>>]

Thresholds == (Threshold - 2)..(Threshold + 2)

\* df[df["Worker"] >= t] of a file: the lines kept
KeptAt(file, t) ==
  LET df == read_csv(file)
      kept == SelectSeq(df, LAMBDA row : WorkerAtLeast(row, t))
  IN  {kept[i].line : i \in 1..Len(kept)}

\* a file load_candidates filters: parsed, with both columns, Worker numeric
Filtered(file) ==
  /\ file.readable /\ "Worker" \in file.cols /\ "Performance" \in file.cols
  /\ ~WorkerIsObject(read_csv(file))

UsesOther(c) ==
  /\ c.kind = "dict"
  /\ \E i \in 1..Len(c.items) : NpStrSub(c).items[i].v.f \notin SafeFuncs \cup {""}

\* C16: redis: a config text that uses a name or an operation other than
\* int, float, str, bool called on literals is not decoded: nothing of it
\* is evaluated, and the run does not get a configuration out of it.
C16_OnlyWhitelistEvaluated ==
  (variant = "redis" /\ best # <<>> /\ UsesOther(best[1].CleanConfig)) =>
     /\ pc \in {"sanitize", "crash"}
     /\ cfg = <<>> /\ outJson = <<>> /\ outConf = <<>>

\* the lines of a file whose Worker is the largest Worker of the file
AtMaxWorker(file) ==
  LET df == read_csv(file)
      num == {i \in 1..Len(df) : IsNumber(df[i].Worker)}
  IN  {df[i].line : i \in {j \in num : \A k \in num : Num(df[k].Worker) <= Num(df[j].Worker)}}

\* C17: nginx: the rows load_candidates returns for a file are exactly the
\* rows whose Worker equals the largest Worker of that file.
C17_RowsAtMaxWorker ==
  variant = "nginx" =>
    \A f \in 1..Len(files) :
       (Filtered(files[f]) /\ pc # "crash") =>
          {pool[i].line : i \in {j \in 1..Len(pool) : pool[j].source = f}} = AtMaxWorker(files[f])

\* the rows of the pool that came from file f
FromFile(f) == {pool[i] : i \in {j \in 1..Len(pool) : pool[j].source = f}}

\* C18: nginx, postgresql: of the lines under the header of a file, the
\* first 10 are never in the pool whatever their Worker and Performance,
\* every later line is in the pool exactly when its Worker is 9 or more,
\* and a file of 10 lines or fewer gives no row.
C18_TenLinesSkipped ==
  Tabular =>
    \A f \in 1..Len(files) :
       LET all == Lines(files[f])
       IN  /\ (Filtered(files[f]) /\ pc # "crash") =>
                /\ \A n \in 1..Len(all) :
                     (\E r \in FromFile(f) : r.line = n) <=>
                        (n > 10 /\ IsNumber(all[n].Worker) /\ Num(all[n].Worker) >= 9)
                /\ \A r \in FromFile(f) :
                     /\ r.line \in 1..Len(all)
                     /\ r.Worker = all[r.line].Worker /\ r.Performance = all[r.line].Performance
           /\ Len(all) <= 10 => FromFile(f) = {}

\* a file of nine lines and two rows: the first row, of Worker 10, is the
\* tenth line and is not in the pool, the second is the eleventh and is
C18_Witness ==
  /\ Tabular /\ Len(files) = 1 /\ files[1].lead = 9 /\ Len(files[1].rows) = 2
  /\ files[1].rows[1] = [Worker |-> "10", Performance |-> "2"]
  /\ Len(pool) = 1 /\ pool[1].line = 11 /\ pool[1].Performance = "1"

\* C19: redis: when a run has ended, in success or in error, either both
\* output files were written in full by it or neither was created or
\* truncated by it.
C19_BothFilesOrNone ==
  (variant = "redis" /\ pc \in {"done", "fatal", "crash"}) =>
     \/ outJson = <<>> /\ outConf = <<>>
     \/ outJson # <<>> /\ outJson[1].complete /\ outConf # <<>>

====
